---- MODULE Spec2Model ----
(***************************************************************************)
(* Netlink management of CAN interfaces (src/src/nl.rs): the CanInterface  *)
(* handle, the link messages its operations build, the one request/reply   *)
(* exchange each of them runs on its own route socket, and the decoding of *)
(* the reply into Details.  The kernel's interface table and other         *)
(* processes changing it are the environment.                              *)
(***************************************************************************)
EXTENDS Integers, Sequences, FiniteSets, TLC

VARIABLES
    kernel,   \* the kernel's interface table: index -> interface (or NoIface)
    handle,   \* the CanInterface the caller holds (Option of if_index)
    pc,       \* where the caller's current call stands
    call,     \* the call in progress: arguments, message built, reply read
    sock,     \* number of route sockets the process has open
    wire,     \* the reply the kernel queued on the socket
    result,   \* what the call returned (while pc = "done")
    prev      \* the last call, if it succeeded and nothing touched the table since
              \* (for details: what it returned, kept while the next details runs)

vars == <<kernel, handle, pc, call, sock, wire, result, prev>>

(***************************************************************************)
(* Bounds and program constants                                            *)
(***************************************************************************)
MaxIndex == 2          \* interface indices the kernel table holds: 1..MaxIndex

IFNAMSIZ == 16
MtuStandard == 16
MtuFd == 72
EXT_FILTER_VF == 1

KernelIndices == 1..MaxIndex
HandleIndices == 0..MaxIndex

\* Interface names, as the bytes of the &str.
NameA == <<97>>
NameBC == <<98, 99>>
NameNul == <<97, 0, 98>>                  \* a &str may hold an interior NUL
Name16 == [i \in 1..IFNAMSIZ |-> 100]     \* IFNAMSIZ bytes: passes the debug_assert
NameBad == <<255>>                        \* not UTF-8: only a reply can carry it
CallerNames == {NameA, NameBC, NameNul, Name16}
KernelNames == {NameA, NameBC}
KernelMtus == {MtuStandard, MtuFd, 1500}
IffBits == {"Up"}
\* The flag bits an interface has: Up and one that the handle never asks for
IffAll == {"Up", "Noarp"}

\* (bitrate, sample_point) arguments tried for set_bitrate
BitrateArgs == { <<500000, [some |-> TRUE, val |-> 750]>>,
                 <<125000, [some |-> FALSE, val |-> 0]>>,
                 <<0, [some |-> FALSE, val |-> 0]>>,
                 <<1000001, [some |-> FALSE, val |-> 0]>>,
                 <<500000, [some |-> TRUE, val |-> 1000]>> }

(***************************************************************************)
(* Option<T>                                                               *)
(***************************************************************************)
Some(x) == [some |-> TRUE, val |-> x]
NoneOf(d) == [some |-> FALSE, val |-> d]
UnwrapOr(o, d) == IF o.some THEN o.val ELSE d

(***************************************************************************)
(* Byte conversions                                                        *)
(***************************************************************************)
\* u32::to_ne_bytes on a little-endian target
ToNeBytes(n) ==
    << n % 256, (n \div 256) % 256, (n \div 65536) % 256, (n \div 16777216) % 256 >>

\* u32::from_ne_bytes on a little-endian target; the top byte is kept below
\* 2^7 by the values that occur
FromNeBytes(b) == b[1] + 256 * b[2] + 65536 * b[3] + 16777216 * b[4]

\* ToBytes for &str: the bytes of the string and a terminating NUL
StrToBytes(s) == s \o <<0>>

\* The C string a buffer holds: its bytes up to the first NUL
RECURSIVE CStr(_)
CStr(b) == IF b = <<>> \/ Head(b) = 0 THEN <<>> ELSE <<Head(b)>> \o CStr(Tail(b))

HasNul(b) == \E i \in 1..Len(b) : b[i] = 0

\* CString::from_vec_with_nul: exactly one NUL and it is the last byte
CStringFromVecWithNul(b) ==
    IF Len(b) >= 1 /\ b[Len(b)] = 0 /\ ~HasNul(SubSeq(b, 1, Len(b) - 1))
    THEN Some(SubSeq(b, 1, Len(b) - 1))
    ELSE NoneOf(<<>>)

\* CString::into_string: the bytes must be UTF-8.  Of the bytes that occur
\* here the ones below 128 are, the byte 255 never is.
IntoString(b) == IF \A i \in 1..Len(b) : b[i] < 128 THEN Some(b) ELSE NoneOf(<<>>)

(***************************************************************************)
(* Attributes and messages                                                 *)
(***************************************************************************)
\* Rtattr::new(None, type, payload)
Rtattr(type, payload) == [rta_type |-> type, rta_payload |-> payload, nested |-> <<>>]

\* Rtattr::add_nested_attribute: the child is appended to the parent's payload
AddNestedAttribute(parent, child) ==
    [parent EXCEPT !.nested = Append(@, [rta_type |-> child.rta_type,
                                         rta_payload |-> child.rta_payload,
                                         nested |-> child.nested])]

\* Ifinfomsg::new(Unspecified, Netrom, index, flags, change, attrs)
IfinfomsgNew(index, flags, change, attrs) ==
    [ifi_family |-> "Unspecified", ifi_type |-> "Netrom", ifi_index |-> index,
     ifi_flags |-> flags, ifi_change |-> change, rtattrs |-> attrs]

\* Ifinfomsg::up: the Up bit in both flags and change mask
IfinfomsgUp(index, attrs) == IfinfomsgNew(index, {"Up"}, {"Up"}, attrs)

\* Ifinfomsg::down: the Up bit in the change mask only
IfinfomsgDown(index, attrs) == IfinfomsgNew(index, {}, {"Up"}, attrs)

\* can_bittiming laid out as 8 native-endian u32
BitTimingFields ==
    <<"bitrate", "sample_point", "tq", "prop_seg", "phase_seg1", "phase_seg2", "sjw", "brp">>

RECURSIVE EncodeFields(_, _)
EncodeFields(rec, names) ==
    IF names = <<>> THEN <<>>
    ELSE ToNeBytes(rec[Head(names)]) \o EncodeFields(rec, Tail(names))

CanBittimingBytes(timing) == EncodeFields(timing, BitTimingFields)

\* The record a 32-byte bit-timing payload holds
DecodeBitTiming(b) ==
    [i \in 1..8 |-> FromNeBytes(SubSeq(b, 4 * i - 3, 4 * i))]

(***************************************************************************)
(* The info message each operation builds                                  *)
(***************************************************************************)
\* bring_down, were it built with Ifinfomsg::up like bring_up
BringDownInfoUp(if_index) == IfinfomsgUp(if_index, <<>>)
\* bring_down: Ifinfomsg::down, no attributes
BringDownInfo(if_index) == IfinfomsgDown(if_index, <<>>)

\* bring_up, were its change mask to cover every flag
BringUpInfoAllFlags(if_index) == IfinfomsgNew(if_index, {"Up"}, IffAll, <<>>)
\* bring_up: Ifinfomsg::up, no attributes
BringUpInfo(if_index) == IfinfomsgUp(if_index, <<>>)

\* create, were it to ask for the new interface to be up
CreateInfoUp(name, index, kind) ==
    IfinfomsgNew(UnwrapOr(index, 0), {"Up"}, {"Up"},
        << Rtattr("Ifname", StrToBytes(name)),
           AddNestedAttribute(Rtattr("Linkinfo", <<>>), Rtattr("Kind", StrToBytes(kind))) >>)
\* create: index or 0, no flags, Ifname and Linkinfo nesting Kind
CreateInfo(name, index, kind) ==
    IfinfomsgNew(UnwrapOr(index, 0), {}, {},
        << Rtattr("Ifname", StrToBytes(name)),
           AddNestedAttribute(Rtattr("Linkinfo", <<>>), Rtattr("Kind", StrToBytes(kind))) >>)

\* delete: the index, no flags, no attributes
DeleteInfo(if_index) == IfinfomsgNew(if_index, {}, {}, <<>>)

\* details: the index and ExtMask(EXT_FILTER_VF)
DetailsInfo(if_index) ==
    IfinfomsgNew(if_index, {}, {}, << Rtattr("ExtMask", ToNeBytes(EXT_FILTER_VF)) >>)

\* Mtu as u32
MtuAsU32(mtu) == IF mtu = "Standard" THEN MtuStandard ELSE MtuFd

\* set_mtu, were the two discriminants swapped
SetMtuInfoSwapped(if_index, mtu) ==
    IfinfomsgNew(if_index, {}, {},
        << Rtattr("Mtu", ToNeBytes(IF mtu = "Standard" THEN MtuFd ELSE MtuStandard)) >>)
\* set_mtu: the Mtu attribute holds the 4 native-endian bytes of the enum value
SetMtuInfo(if_index, mtu) ==
    IfinfomsgNew(if_index, {}, {}, << Rtattr("Mtu", ToNeBytes(MtuAsU32(mtu))) >>)

\* The Data attribute set_bitrate builds around the bit-timing record
SetBitrateData(bitrate, sample_point) ==
    LET timing == [bitrate |-> bitrate, sample_point |-> UnwrapOr(sample_point, 0),
                   tq |-> 0, prop_seg |-> 0, phase_seg1 |-> 0, phase_seg2 |-> 0,
                   sjw |-> 0, brp |-> 0]
    IN  AddNestedAttribute(Rtattr("Data", <<>>),
                           Rtattr("BitTiming", CanBittimingBytes(timing)))

\* The message of set_bitrate: link_info gets Kind("can"); data is built and then
\* dropped, it is never added to link_info before link_info is pushed
SetBitrateInfo(if_index, bitrate, sample_point) ==
    LET link_info == AddNestedAttribute(Rtattr("Linkinfo", <<>>),
                                        Rtattr("Kind", StrToBytes(<<99, 97, 110>>)))
        data == SetBitrateData(bitrate, sample_point)
    IN  IfinfomsgNew(if_index, {}, {}, << link_info >>)

\* Nlmsghdr::new(None, type, flags, None, None, Payload(info))
Nlmsghdr(type, flags, info) == [nl_type |-> type, nl_flags |-> flags, nl_payload |-> info]

\* send_info_msg: Request and Ack, and the additional flags
\* send_info_msg, were Ack left out of the flags
SendInfoMsgHdrNoAck(msg_type, info, additional_flags) ==
    Nlmsghdr(msg_type, {"Request"} \cup additional_flags, info)
SendInfoMsgHdr(msg_type, info, additional_flags) ==
    Nlmsghdr(msg_type, {"Request", "Ack"} \cup additional_flags, info)

\* details: Getlink with Request only
DetailsHdr(info) == Nlmsghdr("Getlink", {"Request"}, info)

(***************************************************************************)
(* Environment: the kernel's rtnetlink handling of one request.  A request *)
(* is handled atomically while it is sent; the reply (if any) is queued on *)
(* the sender's socket.                                                    *)
(***************************************************************************)
NoIface == [name |-> <<>>, flags |-> {}, mtu |-> 0]
Ifaces == [name : KernelNames, flags : SUBSET IffBits, mtu : KernelMtus]

Exists(k, i) == i \in KernelIndices /\ k[i] # NoIface
NameToIndex(k, n) == {i \in KernelIndices : k[i] # NoIface /\ k[i].name = n}

\* A table is valid when no two interfaces share a name
ValidTable(k) ==
    \A i, j \in KernelIndices : (i # j /\ Exists(k, i) /\ Exists(k, j)) => k[i].name # k[j].name

NoInfo == IfinfomsgNew(0, {}, {}, <<>>)
NoReply == [kind |-> "Nothing", code |-> "", info |-> NoInfo]
AckRecord == [kind |-> "Ack", code |-> "", info |-> NoInfo]
ErrRecord(c) == [kind |-> "Err", code |-> c, info |-> NoInfo]
PayloadRecord(info) == [kind |-> "Payload", code |-> "", info |-> info]
EmptyRecord == [kind |-> "Empty", code |-> "", info |-> NoInfo]

AttrsOfType(attrs, t) == {i \in 1..Len(attrs) : attrs[i].rta_type = t}
HasAttr(attrs, t) == AttrsOfType(attrs, t) # {}
AttrOf(attrs, t) == attrs[CHOOSE i \in AttrsOfType(attrs, t) : \A j \in AttrsOfType(attrs, t) : i <= j]

KindVcan == <<118, 99, 97, 110>>
\* vcan's MTU after creation is CAN_MTU or CANFD_MTU, by kernel version;
\* other kinds start from their own default
KernelDefaultMtu(kind) == IF kind = KindVcan THEN {MtuStandard, MtuFd} ELSE {1500}

Refused(k, code) == [k |-> k, reply |-> ErrRecord(code)]
\* A success is acknowledged only when the request asked for it
Done(k, msg) == [k |-> k, reply |-> IF "Ack" \in msg.nl_flags THEN AckRecord ELSE NoReply]

\* The device a link message names: by index when positive, else by name
KernelTarget(k, info) ==
    IF info.ifi_index > 0
    THEN (IF Exists(k, info.ifi_index) THEN {info.ifi_index} ELSE {})
    ELSE IF HasAttr(info.rtattrs, "Ifname")
         THEN NameToIndex(k, CStr(AttrOf(info.rtattrs, "Ifname").rta_payload))
         ELSE {}

\* do_setlink: rename, MTU and flags under the change mask
KernelSetlink(k, i, info) ==
    LET a == info.rtattrs
        newName == IF HasAttr(a, "Ifname") THEN CStr(AttrOf(a, "Ifname").rta_payload)
                   ELSE k[i].name
        newMtu == IF HasAttr(a, "Mtu") /\ Len(AttrOf(a, "Mtu").rta_payload) = 4
                  THEN FromNeBytes(AttrOf(a, "Mtu").rta_payload) ELSE k[i].mtu
        newFlags == (k[i].flags \ info.ifi_change) \cup (info.ifi_flags \cap info.ifi_change)
    IN  [k EXCEPT ![i] = [name |-> newName, flags |-> newFlags \cap IffAll, mtu |-> newMtu]]

\* rtnl_create_link: the name must fit IFNAMSIZ - 1 bytes and be free; index 0
\* lets the kernel pick a free index
KernelCreate(k, msg) ==
    LET info == msg.nl_payload
        a == info.rtattrs
        raw == IF HasAttr(a, "Ifname") THEN AttrOf(a, "Ifname").rta_payload ELSE <<>>
        stripped == IF raw # <<>> /\ raw[Len(raw)] = 0 THEN SubSeq(raw, 1, Len(raw) - 1) ELSE raw
        name == CStr(raw)
        link == IF HasAttr(a, "Linkinfo") THEN AttrOf(a, "Linkinfo").nested ELSE <<>>
        kind == IF HasAttr(link, "Kind") THEN CStr(AttrOf(link, "Kind").rta_payload) ELSE <<>>
        free == IF info.ifi_index > 0
                THEN {info.ifi_index} \cap {i \in KernelIndices : ~Exists(k, i)}
                ELSE {i \in KernelIndices : ~Exists(k, i)}
    IN  IF Len(stripped) > IFNAMSIZ - 1 THEN {Refused(k, "ERANGE")}
        ELSE IF name = <<>> \/ kind = <<>> THEN {Refused(k, "EINVAL")}
        ELSE IF NameToIndex(k, name) # {} THEN {Refused(k, "EEXIST")}
        ELSE IF free = {} THEN {Refused(k, "ENFILE")}
        ELSE { Done([k EXCEPT ![i] = [name |-> name,
                                      flags |-> (info.ifi_flags \cap info.ifi_change) \cap IffAll,
                                      mtu |-> m]], msg)
               : i \in free, m \in KernelDefaultMtu(kind) }

\* rtnl_newlink
KernelNewlink(k, msg) ==
    LET info == msg.nl_payload
        dev == KernelTarget(k, info)
    IN  IF info.ifi_index < 0 THEN {Refused(k, "EINVAL")}
        ELSE IF dev # {}
        THEN (IF "Excl" \in msg.nl_flags THEN {Refused(k, "EEXIST")}
              ELSE LET k2 == KernelSetlink(k, CHOOSE i \in dev : TRUE, info)
                   IN  IF ValidTable(k2) THEN {Done(k2, msg)} ELSE {Refused(k, "EEXIST")})
        ELSE IF "Create" \notin msg.nl_flags THEN {Refused(k, "ENODEV")}
        ELSE KernelCreate(k, msg)

\* rtnl_dellink
KernelDellink(k, msg) ==
    LET info == msg.nl_payload
        dev == KernelTarget(k, info)
    IN  IF info.ifi_index <= 0 /\ ~HasAttr(info.rtattrs, "Ifname") THEN {Refused(k, "EINVAL")}
        ELSE IF dev = {} THEN {Refused(k, "ENODEV")}
        ELSE {Done([k EXCEPT ![CHOOSE i \in dev : TRUE] = NoIface], msg)}

\* rtnl_fill_ifinfo: the interface as an RTM_NEWLINK payload
KernelIfinfo(k, i) ==
    IfinfomsgNew(i, k[i].flags, {},
        << Rtattr("Ifname", StrToBytes(k[i].name)),
           Rtattr("Txqlen", ToNeBytes(0)),
           Rtattr("Mtu", ToNeBytes(k[i].mtu)) >>)

\* rtnl_getlink
KernelGetlink(k, msg) ==
    LET info == msg.nl_payload
        dev == KernelTarget(k, info)
    IN  IF info.ifi_index <= 0 /\ ~HasAttr(info.rtattrs, "Ifname") THEN {Refused(k, "EINVAL")}
        ELSE IF dev = {} THEN {Refused(k, "ENODEV")}
        ELSE {[k |-> k, reply |-> PayloadRecord(KernelIfinfo(k, CHOOSE i \in dev : TRUE))]}

\* What the kernel may do with a request: every changing request can also be
\* refused for lack of privilege, leaving the table as it is
KernelOutcomes(k, msg) ==
    CASE msg.nl_type = "Newlink" -> KernelNewlink(k, msg) \cup {Refused(k, "EPERM")}
      [] msg.nl_type = "Dellink" -> KernelDellink(k, msg) \cup {Refused(k, "EPERM")}
      [] msg.nl_type = "Getlink" -> KernelGetlink(k, msg)

\* if_nametoindex: the name goes through a C string, which an interior NUL
\* forbids; then the kernel's table is searched
IfNametoindex(k, name) ==
    IF HasNul(name) \/ NameToIndex(k, name) = {} THEN NoneOf(0)
    ELSE Some(CHOOSE i \in NameToIndex(k, name) : TRUE)

(***************************************************************************)
(* The session: classifying the one record read                            *)
(***************************************************************************)
\* What recv() hands back when the transport itself fails
IoErrorRecord == [kind |-> "IoError", code |-> "", info |-> NoInfo]

NoDetails == [name |-> NoneOf(<<>>), index |-> 0, is_up |-> FALSE, mtu |-> NoneOf("")]
NoResult == [ok |-> FALSE, err |-> "", code |-> "", details |-> NoDetails,
             handle |-> NoneOf(0)]
Ok == [NoResult EXCEPT !.ok = TRUE]
Err(kind, code) == [NoResult EXCEPT !.err = kind, !.code = code]

\* send_and_read_ack after the send: recv()? fails on a transport error and on
\* an error record; an Ack record is Ok; anything else, or nothing, is NoAck
\* send_and_read_ack, were any record with content taken for the Ack
SendAndReadAckLax(r) ==
    CASE r.kind = "IoError" -> Err("Transport", "")
      [] r.kind = "Err" -> Err("Nlmsgerr", r.code)
      [] r.kind \in {"Ack", "Payload"} -> Ok
      [] OTHER -> Err("NoAck", "")
SendAndReadAck(r) ==
    CASE r.kind = "IoError" -> Err("Transport", "")
      [] r.kind = "Err" -> Err("Nlmsgerr", r.code)
      [] r.kind = "Ack" -> Ok
      [] OTHER -> Err("NoAck", "")

\* The match on u32::from_ne_bytes in details: an allow-list
\* the match, were its last arm to let other values through
MtuFromU32Passthrough(v) == Some(IF v = MtuFd THEN "Fd" ELSE "Standard")
MtuFromU32(v) ==
    CASE v = MtuStandard -> Some("Standard")
      [] v = MtuFd -> Some("Fd")
      [] OTHER -> NoneOf("")

\* One turn of the loop over payload.rtattrs in details
\* the loop, were a name that fails to decode kept as the bytes before its
\* first NUL
DetailsAttrLossy(info, attr) ==
    CASE attr.rta_type = "Ifname" -> [info EXCEPT !.name = Some(CStr(attr.rta_payload))]
      [] attr.rta_type = "Mtu" ->
            IF Len(attr.rta_payload) = 4
            THEN [info EXCEPT !.mtu = MtuFromU32(FromNeBytes(attr.rta_payload))]
            ELSE info
      [] OTHER -> info
DetailsAttr(info, attr) ==
    CASE attr.rta_type = "Ifname" ->
            LET string == CStringFromVecWithNul(attr.rta_payload)
            IN  IF string.some /\ IntoString(string.val).some
                THEN [info EXCEPT !.name = Some(IntoString(string.val).val)]
                ELSE info
      [] attr.rta_type = "Mtu" ->
            IF Len(attr.rta_payload) = 4
            THEN [info EXCEPT !.mtu = MtuFromU32(FromNeBytes(attr.rta_payload))]
            ELSE info
      [] OTHER -> info

RECURSIVE DetailsAttrs(_, _)
DetailsAttrs(info, attrs) ==
    IF attrs = <<>> THEN info
    ELSE DetailsAttrs(DetailsAttr(info, Head(attrs)), Tail(attrs))

\* details after the send: recv()? fails on a transport error and on an error
\* record; None is NoAck; Some(msg_hdr) is Ok, the fields filled from the
\* payload when the record has one
\* details, were the handle to keep what its last query returned and answer
\* from it
DetailsOfReplyCached(if_index, r) ==
    IF prev.op = "details" /\ prev.index = if_index
    THEN [Ok EXCEPT !.details = [name |-> Some(prev.name), index |-> if_index,
                                 is_up |-> prev.wasUp,
                                 mtu |-> IF prev.mtu = "" THEN NoneOf("") ELSE Some(prev.mtu)]]
    ELSE CASE r.kind = "IoError" -> Err("Transport", "")
           [] r.kind = "Err" -> Err("Nlmsgerr", r.code)
           [] r.kind = "Nothing" -> Err("NoAck", "")
           [] OTHER ->
                LET info == [NoDetails EXCEPT !.index = if_index]
                IN  [Ok EXCEPT !.details =
                        IF r.kind = "Payload"
                        THEN DetailsAttrs([info EXCEPT !.is_up = "Up" \in r.info.ifi_flags],
                                          r.info.rtattrs)
                        ELSE info]
\* details, were an error record handed on as a message like any other
DetailsOfReplyErrAsSome(if_index, r) ==
    CASE r.kind = "IoError" -> Err("Transport", "")
      [] r.kind = "Nothing" -> Err("NoAck", "")
      [] OTHER ->
            LET info == [NoDetails EXCEPT !.index = if_index]
            IN  [Ok EXCEPT !.details =
                    IF r.kind = "Payload"
                    THEN DetailsAttrs([info EXCEPT !.is_up = "Up" \in r.info.ifi_flags],
                                      r.info.rtattrs)
                    ELSE info]
DetailsOfReply(if_index, r) ==
    CASE r.kind = "IoError" -> Err("Transport", "")
      [] r.kind = "Err" -> Err("Nlmsgerr", r.code)
      [] r.kind = "Nothing" -> Err("NoAck", "")
      [] OTHER ->
            LET info == [NoDetails EXCEPT !.index = if_index]
            IN  [Ok EXCEPT !.details =
                    IF r.kind = "Payload"
                    THEN DetailsAttrs([info EXCEPT !.is_up = "Up" \in r.info.ifi_flags],
                                      r.info.rtattrs)
                    ELSE info]

\* delete: Ok(()) or Err((self, err))
\* delete, were the failure to carry the error alone
DeleteResultDropsSelf(if_index, res) == res
DeleteResult(if_index, res) ==
    IF res.ok THEN res ELSE [res EXCEPT !.handle = Some(if_index)]

(***************************************************************************)
(* The caller's calls                                                      *)
(***************************************************************************)
NoMsg == Nlmsghdr("none", {}, NoInfo)
Unread == [kind |-> "Unread", code |-> "", info |-> NoInfo]
NoCall == [op |-> "none", self |-> 0, name |-> <<>>, index |-> NoneOf(0), kind |-> <<>>,
           mtu |-> "", bitrate |-> 0, sample_point |-> NoneOf(0), msg |-> NoMsg,
           reply |-> Unread, wasUp |-> FALSE, clean |-> TRUE,
           sends |-> 0, recvs |-> 0, lookups |-> 0, collide |-> FALSE]
NoPrev == [op |-> "none", index |-> 0, name |-> <<>>, mtu |-> "", wasUp |-> FALSE]

Mutators == {"create", "delete", "bring_up", "bring_down", "set_mtu", "set_bitrate"}

Init ==
    /\ kernel = [i \in KernelIndices |-> NoIface]
    /\ handle = NoneOf(0)
    /\ pc = "idle"
    /\ call = NoCall
    /\ sock = 0
    /\ wire = NoReply
    /\ result = NoResult
    /\ prev = NoPrev

\* open_iface: no check, no kernel involved
OpenIface(if_index) ==
    /\ pc = "idle"
    /\ handle' = Some(if_index)
    /\ prev' = IF prev.op = "delete" /\ prev.index = if_index THEN prev ELSE NoPrev
    /\ UNCHANGED <<kernel, pc, call, sock, wire, result>>

\* open: if_nametoindex(ifname)?, then open_iface
Open(ifname) ==
    /\ pc = "idle"
    /\ IfNametoindex(kernel, ifname).some
    /\ handle' = Some(IfNametoindex(kernel, ifname).val)
    /\ prev' = NoPrev
    /\ UNCHANGED <<kernel, pc, call, sock, wire, result>>

\* The start of a netlink call: the message is built and open_route_socket
\* either connects a socket or fails the call
Begin(c) ==
    /\ pc = "idle"
    /\ call' = c
    /\ prev' = IF c.op = "details" THEN prev ELSE NoPrev
    /\ wire' = NoReply
    /\ \/ /\ sock' = sock + 1
          /\ pc' = "open"
          /\ result' = NoResult
       \/ /\ sock' = sock
          /\ pc' = "done"
          /\ result' = IF c.op = "delete" THEN DeleteResult(c.self, Err("Transport", ""))
                       ELSE Err("Transport", "")
    /\ UNCHANGED kernel

BringDown ==
    /\ handle.some
    /\ Begin([NoCall EXCEPT !.op = "bring_down", !.self = handle.val,
                !.msg = SendInfoMsgHdr("Newlink", BringDownInfo(handle.val), {})])
    /\ UNCHANGED handle

BringUp ==
    /\ handle.some
    /\ Begin([NoCall EXCEPT !.op = "bring_up", !.self = handle.val,
                !.msg = SendInfoMsgHdr("Newlink", BringUpInfo(handle.val), {})])
    /\ UNCHANGED handle

\* The additional flags create passes to send_info_msg
\* create, were it to ask for creation without exclusivity
CreateFlagsNoExcl == {"Create"}
CreateFlags == {"Create", "Excl"}

\* create(name, index, kind); the debug_assert on the name's length holds for
\* every name tried
Create(name, index, kind) ==
    /\ Len(name) <= IFNAMSIZ
    /\ Begin([NoCall EXCEPT !.op = "create", !.name = name, !.index = index, !.kind = kind,
                !.msg = SendInfoMsgHdr("Newlink", CreateInfo(name, index, kind),
                                       CreateFlags)])
    /\ UNCHANGED handle

\* create_vcan
CreateVcan(name, index) == Create(name, index, KindVcan)

\* delete(self): the handle is moved into the call
Delete ==
    /\ handle.some
    /\ Begin([NoCall EXCEPT !.op = "delete", !.self = handle.val,
                !.msg = SendInfoMsgHdr("Dellink", DeleteInfo(handle.val), {})])
    /\ handle' = NoneOf(0)

Details ==
    /\ handle.some
    /\ Begin([NoCall EXCEPT !.op = "details", !.self = handle.val,
                !.msg = DetailsHdr(DetailsInfo(handle.val))])
    /\ UNCHANGED handle

SetMtu(mtu) ==
    /\ handle.some
    /\ Begin([NoCall EXCEPT !.op = "set_mtu", !.self = handle.val, !.mtu = mtu,
                !.msg = SendInfoMsgHdr("Newlink", SetMtuInfo(handle.val, mtu), {})])
    /\ UNCHANGED handle

\* The conditions of the two debug_assert!s of set_bitrate
BitrateAsserts(bitrate, sample_point) ==
    /\ 0 < bitrate /\ bitrate <= 1000000
    /\ ~(sample_point.some /\ sample_point.val >= 1000)

\* A debug_assert! fails: the call panics before anything else is done; the
\* unwinding leaves set_bitrate and the caller goes on from there
Panic(c) ==
    /\ pc = "idle"
    /\ call' = c
    /\ pc' = "done"
    /\ result' = Err("Panic", "")
    /\ prev' = NoPrev
    /\ wire' = NoReply
    /\ UNCHANGED <<kernel, sock>>

\* set_bitrate: debug_assert! checks its condition in a build with
\* debug_assertions and is compiled to nothing in a build without, so with
\* arguments out of range the call either panics or goes on, by the build
SetBitrate(bitrate, sample_point) ==
    /\ handle.some
    /\ LET c == [NoCall EXCEPT !.op = "set_bitrate", !.self = handle.val,
                    !.bitrate = bitrate, !.sample_point = sample_point,
                    !.msg = SendInfoMsgHdr("Newlink",
                                SetBitrateInfo(handle.val, bitrate, sample_point), {})]
       IN  IF BitrateAsserts(bitrate, sample_point) THEN Begin(c)
           ELSE Panic(c) \/ Begin(c)
    /\ UNCHANGED handle

\* The result of the call once its one record is read (or the read failed)
ResultOf(c, r) ==
    CASE c.op = "details" -> DetailsOfReply(c.self, r)
      [] c.op = "delete" -> DeleteResult(c.self, SendAndReadAck(r))
      [] c.op = "create" ->
            LET res == SendAndReadAck(r)
            IN  IF res.ok /\ c.index.some THEN [res EXCEPT !.handle = Some(c.index.val)]
                ELSE res
      [] OTHER -> SendAndReadAck(r)

\* An interface already has the name create asks for, or the explicit index
CreateCollides(k, c) ==
    /\ c.op = "create"
    /\ \/ NameToIndex(k, CStr(c.name)) # {}
       \/ c.index.some /\ Exists(k, c.index.val)

\* sock.send(msg): it fails, or the kernel handles the request and queues its reply
\* the call, were a failed send tried again on the same socket
SendAgainOnFailure ==
    /\ pc = "open"
    /\ \/ /\ pc' = "open"
          /\ call' = [call EXCEPT !.sends = @ + 1]
          /\ UNCHANGED <<kernel, wire, sock, result>>
       \/ \E o \in KernelOutcomes(kernel, call.msg) :
            /\ kernel' = o.k
            /\ wire' = o.reply
            /\ call' = [call EXCEPT !.sends = @ + 1,
                                    !.wasUp = Exists(kernel, call.self)
                                              /\ "Up" \in kernel[call.self].flags,
                                    !.collide = CreateCollides(kernel, call)]
            /\ pc' = "sent"
            /\ UNCHANGED <<sock, result>>
    /\ UNCHANGED <<handle, prev>>
Send ==
    /\ pc = "open"
    /\ \/ /\ pc' = "done"
          /\ sock' = sock - 1
          /\ result' = ResultOf(call, IoErrorRecord)
          /\ call' = [call EXCEPT !.sends = @ + 1]
          /\ UNCHANGED <<kernel, wire>>
       \/ \E o \in KernelOutcomes(kernel, call.msg) :
            /\ kernel' = o.k
            /\ wire' = o.reply
            /\ call' = [call EXCEPT !.sends = @ + 1,
                                    !.wasUp = Exists(kernel, call.self)
                                              /\ "Up" \in kernel[call.self].flags,
                                    !.collide = CreateCollides(kernel, call)]
            /\ pc' = "sent"
            /\ UNCHANGED <<sock, result>>
    /\ UNCHANGED <<handle, prev>>

\* The call goes on from the record r that recv() produced: the socket is
\* dropped as send_info_msg (or details) returns; create without an index has
\* the name lookup still to do
\* the call, were a request the kernel refused sent again on the same socket
\* until it is accepted
FinishRetries(r) ==
    IF r.kind = "Err"
    THEN /\ pc' = "open"
         /\ call' = [call EXCEPT !.sends = 0]
         /\ wire' = NoReply
         /\ UNCHANGED <<kernel, handle, prev, sock, result>>
    ELSE /\ call' = [call EXCEPT !.reply = r, !.recvs = @ + 1]
         /\ sock' = sock - 1
         /\ wire' = NoReply
         /\ result' = ResultOf(call, r)
         /\ pc' = IF call.op = "create" /\ ResultOf(call, r).ok /\ ~call.index.some
                  THEN "acked" ELSE "done"
         /\ UNCHANGED <<kernel, handle, prev>>
\* the call, were the socket kept open past the return of send_info_msg
FinishKeepsSocket(r) ==
    /\ call' = [call EXCEPT !.reply = r, !.recvs = @ + 1]
    /\ sock' = sock
    /\ wire' = NoReply
    /\ result' = ResultOf(call, r)
    /\ pc' = IF call.op = "create" /\ ResultOf(call, r).ok /\ ~call.index.some
             THEN "acked" ELSE "done"
    /\ UNCHANGED <<kernel, handle, prev>>
Finish(r) ==
    /\ call' = [call EXCEPT !.reply = r, !.recvs = @ + 1]
    /\ sock' = sock - 1
    /\ wire' = NoReply
    /\ result' = ResultOf(call, r)
    /\ pc' = IF call.op = "create" /\ ResultOf(call, r).ok /\ ~call.index.some
             THEN "acked" ELSE "done"
    /\ UNCHANGED <<kernel, handle, prev>>

\* sock.recv(): the queued record is read
RecvReply == pc = "sent" /\ wire # NoReply /\ Finish(wire)
\* sock.recv(): the socket yields nothing
RecvNone == pc = "sent" /\ Finish(NoReply)
\* sock.recv(): the read fails
RecvError == pc = "sent" /\ Finish(IoErrorRecord)

\* create, no index given: if_nametoindex(name) after the acknowledgement
\* create, were a name that does not resolve reported as a missing Ack
LookupAsNoAck ==
    /\ pc = "acked"
    /\ result' = IF IfNametoindex(kernel, call.name).some
                 THEN [Ok EXCEPT !.handle = Some(IfNametoindex(kernel, call.name).val)]
                 ELSE Err("NoAck", "")
    /\ call' = [call EXCEPT !.lookups = @ + 1]
    /\ pc' = "done"
    /\ UNCHANGED <<kernel, handle, sock, wire, prev>>
Lookup ==
    /\ pc = "acked"
    /\ result' = IF IfNametoindex(kernel, call.name).some
                 THEN [Ok EXCEPT !.handle = Some(IfNametoindex(kernel, call.name).val)]
                 ELSE Err("Msg", "")
    /\ call' = [call EXCEPT !.lookups = @ + 1]
    /\ pc' = "done"
    /\ UNCHANGED <<kernel, handle, sock, wire, prev>>

\* The call returns to the caller, who keeps the handle it got (from create)
\* or got back (from a failed delete)
Return ==
    /\ pc = "done"
    /\ pc' = "idle"
    /\ handle' = IF result.handle.some THEN result.handle ELSE handle
    /\ prev' = IF result.ok /\ call.clean /\ call.op \in Mutators
               THEN [op |-> call.op,
                     index |-> IF call.op = "create" THEN result.handle.val ELSE call.self,
                     name |-> call.name, mtu |-> call.mtu, wasUp |-> call.wasUp]
               ELSE IF result.ok /\ call.op = "details"
               THEN [op |-> "details", index |-> call.self,
                     name |-> UnwrapOr(result.details.name, <<>>),
                     mtu |-> UnwrapOr(result.details.mtu, ""),
                     wasUp |-> result.details.is_up]
               ELSE NoPrev
    /\ call' = NoCall
    /\ result' = NoResult
    /\ UNCHANGED <<kernel, sock, wire>>

\* Another process changes one entry of the kernel's table: creates, deletes,
\* renames or reconfigures an interface.  While a reply is queued or a result
\* is being handed back the change is ordered after that step.
Other ==
    /\ pc \in {"idle", "open", "acked"}
    /\ \E i \in KernelIndices, v \in Ifaces \cup {NoIface} :
          /\ v # kernel[i]
          /\ ValidTable([kernel EXCEPT ![i] = v])
          /\ kernel' = [kernel EXCEPT ![i] = v]
    /\ prev' = IF pc = "open" /\ call.op = "details" /\ prev.op = "details" THEN prev
               ELSE NoPrev
    /\ call' = IF pc = "acked" \/ (pc = "open" /\ call.op = "details" /\ prev.op = "details")
               THEN [call EXCEPT !.clean = FALSE] ELSE call
    /\ UNCHANGED <<handle, pc, sock, wire, result>>

Next ==
    \/ \E i \in HandleIndices : OpenIface(i)
    \/ \E n \in CallerNames : Open(n)
    \/ BringDown
    \/ BringUp
    \/ \E n \in CallerNames, i \in {NoneOf(0)} \cup {Some(x) : x \in HandleIndices} :
          CreateVcan(n, i)
    \/ Delete
    \/ Details
    \/ \E m \in {"Standard", "Fd"} : SetMtu(m)
    \/ \E a \in BitrateArgs : SetBitrate(a[1], a[2])
    \/ Send
    \/ RecvReply
    \/ RecvNone
    \/ RecvError
    \/ Lookup
    \/ Return
    \/ Other

Spec == Init /\ [][Next]_vars

\* The calls are blocking and run on the caller's thread: once the socket is
\* open send() is entered and completes, recv() returns as soon as the
\* transport yields a record, nothing or an error (that it does is the
\* environment's part), and the name lookup of create completes.
SpecFair ==
    /\ Spec
    /\ WF_vars(Send)
    /\ WF_vars(RecvReply \/ RecvNone \/ RecvError)
    /\ WF_vars(Lookup)

(***************************************************************************)
(* The session against every class of record the protocol has: besides the *)
(* kernel's own reply, recv() may hand back a record the request did not   *)
(* ask for (an Ack or an empty record for a query, a payload for a change, *)
(* an interface-info payload with unusual attributes).                     *)
(***************************************************************************)
ForeignInfos ==
    { IfinfomsgNew(1, {"Up"}, {}, << Rtattr("Ifname", StrToBytes(NameNul)),
                                     Rtattr("Mtu", <<16, 0>>) >>),
      IfinfomsgNew(1, {}, {}, << Rtattr("Mtu", ToNeBytes(17)) >>),
      IfinfomsgNew(1, {}, {}, << Rtattr("Ifname", NameA), Rtattr("Mtu", ToNeBytes(MtuFd)),
                                 Rtattr("Mtu", <<72>>) >>),
      IfinfomsgNew(1, {"Up"}, {}, << Rtattr("Ifname", StrToBytes(NameBad)),
                                     Rtattr("Mtu", ToNeBytes(MtuStandard)) >>) }

ForeignRecords(op) ==
    IF op = "details"
    THEN {AckRecord, EmptyRecord} \cup {PayloadRecord(i) : i \in ForeignInfos}
    ELSE {EmptyRecord, PayloadRecord(KernelIfinfo([i \in KernelIndices |->
                                        [name |-> NameA, flags |-> {}, mtu |-> MtuStandard]], 1))}

\* sock.recv(): a record other than the kernel's reply to this request is read
RecvForeign == pc = "sent" /\ \E r \in ForeignRecords(call.op) : Finish(r)

NextAny == Next \/ RecvForeign

SpecAny == Init /\ [][NextAny]_vars

(***************************************************************************)
(* bring_up and bring_down against any table: the interfaces carry any     *)
(* name, MTU and set of flags, and the caller opens a handle and toggles.  *)
(***************************************************************************)
IfacesAnyFlags == [name : KernelNames, flags : SUBSET IffAll, mtu : KernelMtus]

InitToggle ==
    /\ kernel \in {k \in [KernelIndices -> IfacesAnyFlags \cup {NoIface}] : ValidTable(k)}
    /\ handle = NoneOf(0)
    /\ pc = "idle"
    /\ call = NoCall
    /\ sock = 0
    /\ wire = NoReply
    /\ result = NoResult
    /\ prev = NoPrev

NextToggle ==
    \/ \E i \in HandleIndices : OpenIface(i)
    \/ BringDown
    \/ BringUp
    \/ Send
    \/ RecvReply
    \/ RecvNone
    \/ RecvError
    \/ Return

SpecToggle == InitToggle /\ [][NextToggle]_vars

(***************************************************************************)
(* Properties                                                              *)
(***************************************************************************)
DetailsReturned == pc = "done" /\ call.op = "details"
DetailsOkAfter(ops) ==
    DetailsReturned /\ result.ok /\ prev.op \in ops /\ prev.index = call.self

\* C1: details() right after a successful bring_up on the same interface, with
\* nothing else touching the table, reports is_up = TRUE, and after a
\* successful bring_down is_up = FALSE, whether the interface was up or down
\* before the toggle (so a repeated toggle reports what a single one does).
C1_ToggleThenDetails ==
    DetailsOkAfter({"bring_up", "bring_down"})
        => result.details.is_up = (prev.op = "bring_up")

\* C1 witness: bring_up on an interface that was already up, then details()
\* reporting it up.
C1_Witness ==
    DetailsOkAfter({"bring_up"}) /\ prev.wasUp /\ result.details.is_up

\* C2 as stated: after a successful create(name), details() returns the input
\* name, mtu = Standard and not up.
C2_Original ==
    DetailsOkAfter({"create"})
        => /\ result.details.name = Some(prev.name)
           /\ result.details.mtu = Some("Standard")
           /\ ~result.details.is_up

\* C2 amended: after a successful create_vcan(name), details() returns the
\* bytes of the name up to its first NUL (the whole name when it has none),
\* reports the interface as not up, and mtu is Some(Standard) or Some(Fd),
\* the decoding of the MTU the kernel gave the new interface.
C2_CreateThenDetails ==
    DetailsOkAfter({"create"})
        => /\ result.details.name = Some(CStr(prev.name))
           /\ (~HasNul(prev.name) => result.details.name = Some(prev.name))
           /\ ~result.details.is_up
           /\ result.details.mtu \in {Some("Standard"), Some("Fd")}
           /\ MtuAsU32(result.details.mtu.val) = kernel[call.self].mtu

\* C2 witness: create_vcan("bc") then details() returning "bc", down, with
\* the MTU Fd.
C2_Witness ==
    /\ DetailsOkAfter({"create"})
    /\ prev.name = NameBC
    /\ result.details.name = Some(NameBC)
    /\ result.details.mtu = Some("Fd")
    /\ ~result.details.is_up

\* C3: details() right after a successful set_mtu(m) on the same interface
\* yields mtu = Some(m), for m = Standard and for m = Fd.
C3_SetMtuThenDetails ==
    DetailsOkAfter({"set_mtu"}) => result.details.mtu = Some(prev.mtu)

\* C3 witness: set_mtu(Fd) took an interface from 16 to 72 and details()
\* reports Fd.
C3_Witness ==
    /\ DetailsOkAfter({"set_mtu"})
    /\ prev.mtu = "Fd"
    /\ result.details.mtu = Some("Fd")
    /\ kernel[call.self].mtu = MtuFd

DeleteReturned == pc = "done" /\ call.op = "delete"

C4_DeleteState ==
    DeleteReturned
        => /\ result.ok <=> call.reply.kind = "Ack"
           /\ result.ok => (~result.handle.some /\ ~handle.some)
           /\ ~result.ok => /\ result.handle = Some(call.self)
                            /\ result.err # ""
                            /\ call.msg.nl_payload.ifi_index = call.self
C4_DeleteStep ==
    /\ (DeleteReturned /\ ~result.ok /\ pc' = "idle") => handle' = Some(call.self)
    /\ (pc = "idle" /\ handle.some /\ call'.op = "delete")
            => call'.msg.nl_payload.ifi_index = handle.val

\* C4: delete returns Ok exactly when the record read is the kernel's Ack, and
\* then the caller holds no handle; on every failure it returns the handle it
\* was given, index unchanged, with the error, the caller holds it again after
\* the return, and a delete begun on that handle asks for the same index.
C4_Delete == [](C4_DeleteState) /\ [][C4_DeleteStep]_vars

\* C4 witness: a delete the kernel refused, returning the handle with the
\* kernel's error.
C4_Witness ==
    /\ DeleteReturned
    /\ ~result.ok
    /\ result.err = "Nlmsgerr"
    /\ result.handle = Some(call.self)

\* C5: details() on a handle whose index names no interface never returns Ok;
\* it fails with the kernel's error record for the lookup (ENODEV, or EINVAL
\* for index 0), with NoAck, or with the transport's error.
C5_DetailsOnRemoved ==
    (DetailsReturned /\ ~Exists(kernel, call.self))
        => /\ ~result.ok
           /\ result.err \in {"Nlmsgerr", "NoAck", "Transport"}
           /\ result.err = "Nlmsgerr" => result.code \in {"ENODEV", "EINVAL"}
           /\ call.reply.kind = "Err" => result.err = "Nlmsgerr"

\* C5 witness: a successful delete of index i, then details() on a handle on i
\* failing with ENODEV.
C5_Witness ==
    /\ DetailsReturned
    /\ prev.op = "delete"
    /\ prev.index = call.self
    /\ ~result.ok
    /\ result.code = "ENODEV"

MutatorRead == pc = "done" /\ call.op \in Mutators /\ call.recvs = 1

\* C6 as stated: for every mutating operation an Ack record gives Ok, an Error
\* record gives the failure with the kernel's code, no reply gives NoAck, and
\* no other reply gives Ok.
C6_Original ==
    MutatorRead
        => /\ call.reply.kind = "Ack" => result.ok
           /\ call.reply.kind = "Err"
                => (~result.ok /\ result.err = "Nlmsgerr" /\ result.code = call.reply.code)
           /\ call.reply.kind = "Nothing" => (~result.ok /\ result.err = "NoAck")
           /\ result.ok => call.reply.kind = "Ack"

\* C6 amended: as stated, except that create without an explicit index, after
\* the Ack, still looks the name up and fails with the race error when the
\* name does not resolve; for every other case an Ack gives Ok.
C6_ReplyDecides ==
    MutatorRead
        => /\ call.reply.kind = "Ack"
                => \/ result.ok
                   \/ /\ call.op = "create" /\ ~call.index.some
                      /\ result.err = "Msg"
                      /\ ~IfNametoindex(kernel, call.name).some
           /\ (call.reply.kind = "Ack" /\ (call.op # "create" \/ call.index.some)) => result.ok
           /\ call.reply.kind = "Err"
                => (~result.ok /\ result.err = "Nlmsgerr" /\ result.code = call.reply.code)
           /\ call.reply.kind = "Nothing" => (~result.ok /\ result.err = "NoAck")
           /\ call.reply.kind \in {"Payload", "Empty"} => (~result.ok /\ result.err = "NoAck")
           /\ result.ok => call.reply.kind = "Ack"

\* C6 witness: a mutating call that read a payload record and failed with NoAck.
C6_Witness ==
    /\ MutatorRead
    /\ call.reply.kind = "Payload"
    /\ ~result.ok
    /\ result.err = "NoAck"

\* C7: details() fails with NoAck whenever the read yields nothing or a record
\* without a payload (an Ack or an empty record).
C7_NoPayloadFails ==
    (DetailsReturned /\ call.recvs = 1 /\ call.reply.kind \in {"Nothing", "Ack", "Empty"})
        => (~result.ok /\ result.err = "NoAck")

MtuAttrs(attrs) == {i \in AttrsOfType(attrs, "Mtu") : Len(attrs[i].rta_payload) = 4}

\* C8: when details() reads an interface-info payload it returns Ok; mtu is
\* Some only if an MTU attribute of exactly 4 bytes holds 16 or 72, and is
\* then that enum value; a payload whose only 4-byte MTU attribute holds
\* another value, or which has no 4-byte MTU attribute, gives mtu = None.
C8_MtuAllowList ==
    (DetailsReturned /\ call.reply.kind = "Payload")
        => LET a == call.reply.info.rtattrs
               m == result.details.mtu
           IN  /\ result.ok
               /\ m.some => /\ m.val \in {"Standard", "Fd"}
                            /\ \E i \in MtuAttrs(a) :
                                  FromNeBytes(a[i].rta_payload) = MtuAsU32(m.val)
               /\ (\A i \in MtuAttrs(a) :
                      FromNeBytes(a[i].rta_payload) \notin {MtuStandard, MtuFd}) => ~m.some

\* C8 witness: a payload whose 4-byte MTU attribute holds 1500, decoded to
\* mtu = None by a details() that returned Ok.
C8_Witness ==
    /\ DetailsReturned
    /\ call.reply.kind = "Payload"
    /\ \E i \in MtuAttrs(call.reply.info.rtattrs) :
          FromNeBytes(call.reply.info.rtattrs[i].rta_payload) = 1500
    /\ result.ok
    /\ ~result.details.mtu.some

\* C9: the message set_bitrate sends has one top-level attribute, Linkinfo,
\* nesting Kind("can") and then Data, and Data nests one BitTiming attribute
\* of 32 bytes decoding to the bitrate, the sample point (0 when absent) and
\* six zero fields.
C9_BitrateMessage ==
    (pc = "sent" /\ call.op = "set_bitrate")
        => LET a == call.msg.nl_payload.rtattrs
           IN  /\ Len(a) = 1
               /\ a[1].rta_type = "Linkinfo"
               /\ Len(a[1].nested) = 2
               /\ a[1].nested[1].rta_type = "Kind"
               /\ a[1].nested[1].rta_payload = <<99, 97, 110, 0>>
               /\ a[1].nested[2].rta_type = "Data"
               /\ Len(a[1].nested[2].nested) = 1
               /\ a[1].nested[2].nested[1].rta_type = "BitTiming"
               /\ Len(a[1].nested[2].nested[1].rta_payload) = 32
               /\ DecodeBitTiming(a[1].nested[2].nested[1].rta_payload)
                    = <<call.bitrate, UnwrapOr(call.sample_point, 0), 0, 0, 0, 0, 0, 0>>

\* C10: every message sent has Request set; Ack is set exactly for the
\* mutating operations (not for the details query); Create and Excl are set
\* exactly for create.
C10_HeaderFlags ==
    call.sends >= 1
        => /\ "Request" \in call.msg.nl_flags
           /\ "Ack" \in call.msg.nl_flags <=> call.op \in Mutators
           /\ "Create" \in call.msg.nl_flags <=> call.op = "create"
           /\ "Excl" \in call.msg.nl_flags <=> call.op = "create"

\* C10 witness: a create message on the wire with Request, Ack, Create, Excl.
C10_Witness ==
    /\ pc = "sent"
    /\ call.op = "create"
    /\ call.msg.nl_flags = {"Request", "Ack", "Create", "Excl"}

CreateReturned == pc = "done" /\ call.op = "create"

C11_CreateState ==
    (CreateReturned /\ call.collide)
        => /\ ~result.ok
           /\ ~result.handle.some
           /\ call.recvs = 1 /\ call.reply.kind \notin {"Nothing", "IoError"}
                => /\ call.reply.kind = "Err"
                   /\ result.err = "Nlmsgerr"
                   /\ result.code = call.reply.code
C11_CreateStep ==
    /\ (pc = "open" /\ pc' = "sent" /\ CreateCollides(kernel, call))
            => (kernel' = kernel /\ wire'.kind = "Err")
    /\ (CreateReturned /\ call.collide /\ pc' = "idle") => handle' = handle

\* C11: a create that reaches the kernel while an interface has the requested
\* name or the requested explicit index leaves the kernel's table as it was and
\* is answered with an error record; the call never returns Ok and hands the
\* caller no handle, and when the kernel's record is read the failure is the
\* kernel's error with its code.
C11_CreateNeverOverwrites == [](C11_CreateState) /\ [][C11_CreateStep]_vars

\* C11 witness: create_vcan("a", Some(i)) with "a" taken by an interface that
\* is up, failed with EEXIST.
C11_Witness ==
    /\ CreateReturned
    /\ call.collide
    /\ call.name = NameA
    /\ call.index.some
    /\ \E i \in NameToIndex(kernel, NameA) : "Up" \in kernel[i].flags
    /\ result.err = "Nlmsgerr"
    /\ result.code = "EEXIST"

C12_CreateState ==
    /\ call.lookups <= 1
    /\ pc = "acked" => (call.op = "create" /\ call.reply.kind = "Ack" /\ ~call.index.some)
    /\ CreateReturned
        => LET found == IfNametoindex(kernel, call.name)
           IN  /\ (call.reply.kind = "Ack" /\ call.index.some)
                    => /\ result.ok
                       /\ result.handle = Some(call.index.val)
                       /\ call.lookups = 0
               /\ (call.reply.kind = "Ack" /\ ~call.index.some)
                    => /\ call.lookups = 1
                       /\ found.some => (result.ok /\ result.handle = found)
                       /\ ~found.some => /\ ~result.ok
                                         /\ result.err = "Msg"
                                         /\ ~result.handle.some
               /\ call.reply.kind # "Ack"
                    => /\ call.lookups = 0
                       /\ ~result.ok
                       /\ result.err \in {"Nlmsgerr", "NoAck", "Transport"}
                       /\ ~result.handle.some
C12_CreateStep ==
    call'.lookups > call.lookups
        => (pc = "acked" /\ pc' = "done" /\ kernel' = kernel /\ call.sends = 1 /\ sock = 0)

\* C12: a create whose request the kernel acknowledged returns, when an index
\* was given, a handle on that index without looking the name up; when none
\* was given it looks the name up once, after the acknowledgement, and returns
\* a handle on the index found, or fails with the race error (not the kernel's
\* error record, not NoAck) when the name does not resolve at that moment.  A
\* create whose request failed looks nothing up and returns no handle.
C12_CreateAfterAck == [](C12_CreateState) /\ [][C12_CreateStep]_vars

\* C12 witness: create_vcan("a", None) acknowledged, the interface removed or
\* renamed by another process before the lookup, and the race error returned.
C12_Witness ==
    /\ CreateReturned
    /\ call.name = NameA
    /\ ~call.index.some
    /\ call.reply.kind = "Ack"
    /\ ~call.clean
    /\ call.lookups = 1
    /\ result.err = "Msg"

C13_SocketState ==
    /\ sock \in {0, 1}
    /\ pc \in {"open", "sent"} => sock = 1
    /\ pc \in {"idle", "acked", "done"} => sock = 0
C13_SocketStep ==
    /\ (pc = "idle" /\ pc' = "open") => (sock = 0 /\ sock' = 1)
    /\ (call'.sends > call.sends \/ call'.recvs > call.recvs) => sock = 1
    /\ (pc \in {"open", "sent"} /\ pc' \notin {"open", "sent"}) => sock' = 0

\* C13: a socket is open only while a call is between open_route_socket and
\* the return of send_info_msg or details: never more than one, none while the
\* caller is between calls, none when a call hands back its result whatever
\* the way out (Ok, send failure, receive failure, kernel error, NoAck), and
\* each call that sends or receives does so on the socket it opened itself.
C13_SocketScoped == [](C13_SocketState) /\ [][C13_SocketStep]_vars

\* C13 witness: a call whose receive failed after its send hands back the
\* transport's error with no socket left open.
C13_Witness ==
    /\ pc = "done"
    /\ call.sends = 1
    /\ call.reply.kind = "IoError"
    /\ result.err = "Transport"
    /\ sock = 0

C14_RoundTripState ==
    /\ call.sends <= 1
    /\ call.recvs <= call.sends
    /\ pc = "sent" => (call.sends = 1 /\ call.recvs = 0)
    /\ (pc = "done" /\ call.recvs = 0) => result.err \in {"Transport", "Panic"}
    /\ (pc \in {"acked", "done"} /\ result.err \notin {"Transport", "Panic"})
            => (call.sends = 1 /\ call.recvs = 1)
C14_RoundTripStep ==
    /\ call'.sends > call.sends => (pc = "open" /\ call.sends = 0 /\ call.recvs = 0)
    /\ call'.recvs > call.recvs => (pc = "sent" /\ call'.recvs = 1)
    /\ pc \in {"sent", "acked", "done"} => call'.sends <= call.sends
    /\ pc' = "open" => pc \in {"idle", "open"}

\* C14: a call sends at most once and receives at most once, the receive only
\* after its send; a call that got its socket and whose send went through has
\* sent once and received once when it hands back its result; after a failed
\* send, a failed receive or a failure reply the call goes on to its return
\* without sending again.
C14_OneRoundTrip == [](C14_RoundTripState) /\ [][C14_RoundTripStep]_vars

\* C14 witness: a call answered with an error record hands back the kernel's
\* error after one send and one receive.
C14_Witness ==
    /\ pc = "done"
    /\ call.reply.kind = "Err"
    /\ result.err = "Nlmsgerr"
    /\ call.sends = 1
    /\ call.recvs = 1

NameDecodes(b) ==
    CStringFromVecWithNul(b).some /\ IntoString(CStringFromVecWithNul(b).val).some
WithName(attrs, n) ==
    [i \in 1..Len(attrs) |-> IF attrs[i].rta_type = "Ifname"
                             THEN Rtattr("Ifname", StrToBytes(n)) ELSE attrs[i]]
NameUndecodable ==
    /\ DetailsReturned
    /\ call.reply.kind = "Payload"
    /\ HasAttr(call.reply.info.rtattrs, "Ifname")
    /\ \A i \in AttrsOfType(call.reply.info.rtattrs, "Ifname") :
          ~NameDecodes(call.reply.info.rtattrs[i].rta_payload)

\* C15: when details() reads a payload whose name attribute lacks the
\* terminating NUL, or has a NUL inside, or is not UTF-8, it returns Ok with
\* name = None, index the handle's index, and is_up and mtu equal to what the
\* same payload with a decodable name in its place gives.
C15_NameDecodeAbsorbed ==
    NameUndecodable
        => LET info == call.reply.info
               twin == DetailsOfReply(call.self,
                          PayloadRecord([info EXCEPT !.rtattrs = WithName(@, NameA)]))
           IN  /\ result.ok
               /\ ~result.details.name.some
               /\ twin.details.name = Some(NameA)
               /\ result.details.index = call.self
               /\ result.details.is_up = ("Up" \in info.ifi_flags)
               /\ result.details.is_up = twin.details.is_up
               /\ result.details.mtu = twin.details.mtu
               /\ result.details.index = twin.details.index

\* C15 witness: a payload with a name that is not UTF-8, flags Up and MTU 16,
\* decoded to name = None, is_up, mtu = Some(Standard).
C15_Witness ==
    /\ NameUndecodable
    /\ AttrOf(call.reply.info.rtattrs, "Ifname").rta_payload = StrToBytes(NameBad)
    /\ result.ok
    /\ ~result.details.name.some
    /\ result.details.is_up
    /\ result.details.mtu = Some("Standard")

\* C16: a details() that returns Ok reports the interface the kernel's table
\* holds at the handle's index when the query is answered: its name, its
\* up-state, its MTU decoded, and the handle's index; it never returns Ok when
\* the table holds no interface at that index, and it returns Ok when the
\* kernel's payload is read; what an earlier details() on the same handle
\* returned plays no part.
C16_DetailsFresh ==
    DetailsReturned
        => /\ result.ok
                => /\ Exists(kernel, call.self)
                   /\ result.details = [name |-> Some(kernel[call.self].name),
                                        index |-> call.self,
                                        is_up |-> "Up" \in kernel[call.self].flags,
                                        mtu |-> MtuFromU32(kernel[call.self].mtu)]
           /\ ~Exists(kernel, call.self) => ~result.ok
           /\ (Exists(kernel, call.self) /\ call.reply.kind = "Payload") => result.ok

\* C16 witness: two details() in a row on the same handle, another process
\* having renamed the interface and changed its up-state and MTU in between;
\* the second reports the new name, up-state and MTU.
C16_Witness ==
    /\ DetailsReturned
    /\ prev.op = "details"
    /\ prev.index = call.self
    /\ ~call.clean
    /\ result.ok
    /\ result.details.name # Some(prev.name)
    /\ result.details.is_up # prev.wasUp
    /\ result.details.mtu = Some("Fd")
    /\ prev.mtu = "Standard"

\* C17: a set_bitrate call with bitrate = 0, bitrate > 1000000 or a sample
\* point >= 1000 opens no socket and sends nothing, so every set_bitrate
\* request that reaches the kernel comes from a call with
\* 1 <= bitrate <= 1000000 and, when given, sample_point < 1000.
C17_BitratePreconditions ==
    (call.op = "set_bitrate" /\ (sock > 0 \/ call.sends > 0))
        => /\ 1 <= call.bitrate /\ call.bitrate <= 1000000
           /\ call.sample_point.some => call.sample_point.val < 1000

Toggles == {"bring_up", "bring_down"}
C18_ToggleMessage ==
    (call.op \in Toggles /\ call.sends >= 1)
        => /\ call.msg.nl_payload.rtattrs = <<>>
           /\ call.msg.nl_payload.ifi_change = {"Up"}
           /\ call.msg.nl_payload.ifi_flags = (IF call.op = "bring_up" THEN {"Up"} ELSE {})
           /\ call.msg.nl_payload.ifi_index = call.self
C18_ToggleStep ==
    (pc = "open" /\ pc' = "sent" /\ call.op \in Toggles)
        => \A i \in KernelIndices :
              kernel'[i] = IF i = call.self /\ Exists(kernel, i) /\ wire'.kind = "Ack"
                           THEN [kernel[i] EXCEPT !.flags =
                                    (@ \ {"Up"}) \cup (IF call.op = "bring_up" THEN {"Up"}
                                                                             ELSE {})]
                           ELSE kernel[i]

\* C18: the message of bring_up and bring_down has no attributes, the Up bit
\* alone in its change mask, and the Up bit in its flags for bring_up and no
\* flag for bring_down; when the kernel applies it the interface at the
\* handle's index keeps its name, its MTU and every flag but Up, which is set
\* or cleared, and every other entry of the table stays as it was.
C18_ToggleOnlyUp == [](C18_ToggleMessage) /\ [][C18_ToggleStep]_vars

\* C18 witness: bring_down acknowledged on an interface that was up with the
\* Noarp flag and MTU 72: it is down, still Noarp, still MTU 72.
C18_Witness ==
    /\ pc = "sent"
    /\ call.op = "bring_down"
    /\ call.wasUp
    /\ wire.kind = "Ack"
    /\ kernel[call.self].flags = {"Noarp"}
    /\ kernel[call.self].mtu = MtuFd

\* C19: with no other process acting since the request was sent, a create
\* that returns Ok, whatever its index argument (none, 0, or a positive
\* index), returns a handle on the index at which the kernel's table holds the
\* interface just created, the one bearing the requested name.
C19_HandleIsCreated ==
    (CreateReturned /\ result.ok /\ call.clean)
        => /\ result.handle.some
           /\ NameToIndex(kernel, CStr(call.name)) = {result.handle.val}

InCall == pc \in {"open", "sent", "acked"}
C20_Returns == InCall ~> (pc = "done")
C20_BlockedStep ==
    pc = "sent"
        => /\ call'.recvs = call.recvs + 1
           /\ call'.reply \in {wire, NoReply, IoErrorRecord}
           /\ pc' \in {"acked", "done"}

\* C20: given that send completes and that the transport yields a record,
\* nothing or an error to the one recv(), every call that opened its socket
\* reaches the point where it hands back Ok or an error; and a call waiting
\* in recv() leaves it by no other step than the transport's yield (there is
\* no timeout), so it waits for as long as the transport yields nothing.
C20_EventuallyReturns == C20_Returns /\ [][C20_BlockedStep]_vars

\* C20 witness: a call whose recv() met the end of the stream has returned
\* NoAck.
C20_Witness ==
    /\ pc = "done"
    /\ call.sends = 1
    /\ call.recvs = 1
    /\ call.reply = NoReply
    /\ result.err = "NoAck"

====
